---- MODULE Spec2Model ----
(***************************************************************************)
(* Model of src/app.py: a Streamlit script (two modes) that sends form     *)
(* fields to a hosted chat-completion endpoint and appends rows to a       *)
(* Google spreadsheet.                                                     *)
(*                                                                         *)
(* Two specifications share the definitions of the helpers:                *)
(*   Spec    the application: every user event (a widget edit or a button  *)
(*           press) reruns the whole script, app.py lines 173-464;         *)
(*   SpecFn  the helper functions call_model, append_jobpost_to_sheet and  *)
(*           append_research_to_sheet applied to arbitrary arguments and   *)
(*           arbitrary outcomes of the external services.                  *)
(*                                                                         *)
(* Python strings are sequences of one-character strings; a string literal *)
(* of the source is a sequence holding one token that names it (the        *)
(* source's literals are Russian, the tokens are ASCII).  An f-string is   *)
(* the concatenation of its parts.                                         *)
(***************************************************************************)
EXTENDS Integers, Sequences, FiniteSets, TLC

VARIABLES
    HF_TOKEN,             \* app.py:27, read from the secrets
    GCP_SERVICE_ACCOUNT,  \* app.py:28
    hf_cache,             \* st.cache_resource memo of get_hf_client
    gs_cache,             \* st.cache_resource memo of get_gsheet_client
    widgets,              \* the session's widget values
    page,                 \* what the last run rendered (st.* calls, in order)
    run,                  \* the last run: button pressed, external calls, helper calls
    book                  \* the spreadsheet AI_Campaign_Control: its worksheets

vars == <<HF_TOKEN, GCP_SERVICE_ACCOUNT, hf_cache, gs_cache, widgets, page, run, book>>

(***************************************************************************)
(* Bounds                                                                  *)
(***************************************************************************)
\* longest free text typed by the user or returned by the model
MaxLen == 1
\* most rows the spreadsheet is let grow to
MaxRows == 2
\* most fields of the job form, among those the script only passes on
\* (platform, tone, target audience, variant, link), that the user changes
\* from their defaults
MaxOptional == 1

(***************************************************************************)
(* Python values                                                           *)
(***************************************************************************)
\* None, as a value comparable with strings
None == <<"None">>

Chars == {"a", " "}

Strings(n) == UNION {[1..k -> Chars] : k \in 0..n}

\* str.strip(): leading and trailing whitespace removed
RECURSIVE lstrip(_)
lstrip(s) == IF s # <<>> /\ Head(s) = " " THEN lstrip(Tail(s)) ELSE s

RECURSIVE rstrip(_)
rstrip(s) == IF s # <<>> /\ s[Len(s)] = " " THEN rstrip(SubSeq(s, 1, Len(s) - 1)) ELSE s

strip(s) == rstrip(lstrip(s))

\* Python truthiness of a str-or-None value: `if x`, `not x`
Truthy(x) == x # None /\ x # <<>>

\* an st.cache_resource memo that holds nothing yet
UNSET == <<"unset">>
\* the InferenceClient and the gspread client objects
HF_CLIENT == <<"InferenceClient">>
GSPREAD_CLIENT == <<"gspread.Client">>

\* str(e) of the exceptions the external services raise
Errors == {<<"timeout">>, <<"403">>}

(***************************************************************************)
(* CONFIG, app.py:19-24                                                    *)
(***************************************************************************)
MODEL_ID == <<"mistralai/Mistral-7B-Instruct-v0.3">>
SPREADSHEET_NAME == <<"AI_Campaign_Control">>
JOBPOSTS_SHEET == <<"JobPosts">>
RESEARCH_SHEET == <<"ResearchInsights">>

\* app.py:50  "(warning sign) Model' ne nastroena. Prover'te token HF_TOKEN."
MSG_MODEL_NOT_CONFIGURED == <<"Model ne nastroena. Proverte token HF_TOKEN.">>
\* app.py:67  "(warning sign) Oshibka pri vyzove modeli: "
MSG_MODEL_ERROR == <<"Oshibka pri vyzove modeli: ">>
\* app.py:108, 145
MSG_SHEETS_NOT_CONFIGURED == <<"Google Sheets ne nastroen. Proverte gcp_service_account v secrets i dostup k tablice.">>
\* app.py:133, 166
MSG_SHEETS_ERROR == <<"Oshibka pri zapisi v Google Sheets: ">>
\* app.py:131
MSG_JOBPOST_SAVED == <<"Ob'yavlenie sohraneno v Google Sheets (JobPosts).">>
\* app.py:164
MSG_RESEARCH_SAVED == <<"Rezultaty issledovaniya sohraneny v Google Sheets (ResearchInsights).">>
\* app.py:248, 354
MSG_FILL_FIELDS == <<"Pozhaluysta, zapolnite hotya by Dolzhnost, Gorod i Syroy tekst.">>
\* app.py:419
MSG_ENTER_QUESTION == <<"Pozhaluysta, vvedite vopros ili dannye.">>
\* app.py:349
MSG_GENERATE_FIRST == <<"Snachala sgeneriruyte ob'yavlenie.">>
\* app.py:193, 195 (sidebar)
MSG_SIDEBAR_NO_TOKEN == <<"HF_TOKEN ne nastroen v secrets. Model rabotat ne budet.">>
MSG_SIDEBAR_NO_GCP == <<"gcp_service_account ne nastroen - zapis v Google Sheets otklyuchena.">>

\* one rendered element: an st.<el>(body) call
El(el, body) == [el |-> el, body |-> body]

(***************************************************************************)
(* HELPERS: Hugging Face client, app.py:35-67                              *)
(***************************************************************************)
\* The outcomes of the inference service for one call_model: whether the
\* InferenceClient constructor raises, and what chat_completion does.
ChatOutcomes ==
    [ok : {TRUE}, content : Strings(MaxLen), err : {<<>>}]
        \cup [ok : {FALSE}, content : {<<>>}, err : Errors]

ModelEnvs == [ctor_ok : BOOLEAN, chat : ChatOutcomes]

\* get_hf_client without the check of HF_TOKEN (app.py:38-39 left out)
get_hf_client_unchecked(env) ==
    IF hf_cache # UNSET THEN hf_cache
    ELSE IF env.ctor_ok THEN HF_CLIENT
    ELSE None

\* get_hf_client under st.cache_resource: the first call computes and stores
\* the value, later calls return the stored one.
get_hf_client(env) ==
    IF hf_cache # UNSET THEN hf_cache
    ELSE IF ~Truthy(HF_TOKEN) THEN None
    ELSE IF env.ctor_ok THEN HF_CLIENT
    ELSE None

\* one call of an external service: what was called, with what, and how it
\* ended ("ok", "raised", or "WorksheetNotFound"), with the text returned or
\* the str() of the exception
ApiCall(api, arg, outcome, text) ==
    [api |-> api, arg |-> arg, outcome |-> outcome, text |-> text]

\* The chat_completion call of app.py:53-62 and its outcome
ChatRequest(system_prompt, user_prompt, max_new_tokens, chat) ==
    ApiCall("chat_completion",
            [model |-> MODEL_ID, system |-> system_prompt,
             user |-> user_prompt, max_tokens |-> max_new_tokens],
            IF chat.ok THEN "ok" ELSE "raised",
            IF chat.ok THEN chat.content ELSE chat.err)

\* call_model returning the content stripped (.strip() added at app.py:64)
call_model_stripped(system_prompt, user_prompt, max_new_tokens, env) ==
    LET client == get_hf_client(env)
        req == ChatRequest(system_prompt, user_prompt, max_new_tokens, env.chat)
    IN  IF client = None
        THEN [ret |-> MSG_MODEL_NOT_CONFIGURED, calls |-> <<>>,
              cache |-> client, raised |-> FALSE]
        ELSE IF env.chat.ok
        THEN [ret |-> strip(env.chat.content), calls |-> <<req>>,
              cache |-> client, raised |-> FALSE]
        ELSE [ret |-> MSG_MODEL_ERROR \o env.chat.err, calls |-> <<req>>,
              cache |-> client, raised |-> FALSE]

\* call_model without the try/except of app.py:52, 66-67
call_model_uncaught(system_prompt, user_prompt, max_new_tokens, env) ==
    LET client == get_hf_client(env)
        req == ChatRequest(system_prompt, user_prompt, max_new_tokens, env.chat)
    IN  IF client = None
        THEN [ret |-> MSG_MODEL_NOT_CONFIGURED, calls |-> <<>>,
              cache |-> client, raised |-> FALSE]
        ELSE IF env.chat.ok
        THEN [ret |-> env.chat.content, calls |-> <<req>>,
              cache |-> client, raised |-> FALSE]
        ELSE [ret |-> None, calls |-> <<req>>, cache |-> client, raised |-> TRUE]

\* call_model calling chat_completion a second time when the first call raises
call_model_retry(system_prompt, user_prompt, max_new_tokens, env) ==
    LET client == get_hf_client(env)
        req == ChatRequest(system_prompt, user_prompt, max_new_tokens, env.chat)
    IN  IF client = None
        THEN [ret |-> MSG_MODEL_NOT_CONFIGURED, calls |-> <<>>,
              cache |-> client, raised |-> FALSE]
        ELSE IF env.chat.ok
        THEN [ret |-> env.chat.content, calls |-> <<req>>,
              cache |-> client, raised |-> FALSE]
        ELSE [ret |-> MSG_MODEL_ERROR \o env.chat.err, calls |-> <<req, req>>,
              cache |-> client, raised |-> FALSE]

\* call_model: ret is the returned string, calls the external calls made in
\* order, cache the memo of get_hf_client afterwards, raised whether an
\* exception leaves the function.
call_model(system_prompt, user_prompt, max_new_tokens, env) ==
    LET client == get_hf_client(env)
        req == ChatRequest(system_prompt, user_prompt, max_new_tokens, env.chat)
    IN  IF client = None
        THEN [ret |-> MSG_MODEL_NOT_CONFIGURED, calls |-> <<>>,
              cache |-> client, raised |-> FALSE]
        ELSE IF env.chat.ok
        THEN [ret |-> env.chat.content, calls |-> <<req>>,
              cache |-> client, raised |-> FALSE]
        ELSE [ret |-> MSG_MODEL_ERROR \o env.chat.err, calls |-> <<req>>,
              cache |-> client, raised |-> FALSE]

(***************************************************************************)
(* HELPERS: Google Sheets, app.py:75-166                                   *)
(***************************************************************************)
\* The outcomes of the spreadsheet service for one save: whether
\* gspread.authorize succeeds, and which call raises (an exception other
\* than WorksheetNotFound, which the state of the spreadsheet decides).
SheetEnvs ==
    [auth_ok : BOOLEAN, fail : {"none"}, err : {<<>>}]
        \cup [auth_ok : BOOLEAN,
              fail : {"open", "worksheet", "add_worksheet", "append_row"},
              err : Errors]

\* datetime values and datetime.isoformat(): the microseconds are printed
\* only when they are not zero
Timestamps ==
    {[date |-> "2025-01-02", time |-> "03:04:05", microsecond |-> "000000"],
     [date |-> "2025-01-02", time |-> "03:04:06", microsecond |-> "000007"]}

isoformat(t) ==
    IF t.microsecond = "000000" THEN <<t.date, "T", t.time>>
    ELSE <<t.date, "T", t.time, ".", t.microsecond>>

\* get_gsheet_client without the check of gcp_service_account (app.py:78-79
\* left out)
get_gsheet_client_unchecked(env) ==
    IF gs_cache # UNSET THEN gs_cache
    ELSE IF env.auth_ok THEN GSPREAD_CLIENT
    ELSE None

\* get_gsheet_client under st.cache_resource
get_gsheet_client(env) ==
    IF gs_cache # UNSET THEN gs_cache
    ELSE IF ~Truthy(GCP_SERVICE_ACCOUNT) THEN None
    ELSE IF env.auth_ok THEN GSPREAD_CLIENT
    ELSE None

\* a lookup that never finds the worksheet, so that every save takes the
\* add_worksheet branch of app.py:116-117
worksheet_never_found(b, title) == 0

\* gspread: Spreadsheet.worksheet(title), the index of the first worksheet of
\* that title, 0 for WorksheetNotFound
worksheet(b, title) ==
    IF \E i \in 1..Len(b) : b[i].title = title
    THEN CHOOSE i \in 1..Len(b) :
            /\ b[i].title = title
            /\ \A j \in 1..(i - 1) : b[j].title # title
    ELSE 0

\* gspread: Spreadsheet.add_worksheet(title, rows, cols), a new empty worksheet
add_worksheet(b, title) == Append(b, [title |-> title, rows |-> <<>>])

\* gspread: Worksheet.insert_row(values, 1), called in place of append_row
insert_row_first(b, i, values) == [b EXCEPT ![i].rows = <<values>> \o @]

\* gspread: Worksheet.append_row(values), after the last row of worksheet i
append_row(b, i, values) == [b EXCEPT ![i].rows = Append(@, values)]

\* one call of the spreadsheet service under the outcomes env
SheetCall(api, arg, env) ==
    ApiCall(api, arg, IF env.fail = api THEN "raised" ELSE "ok",
            IF env.fail = api THEN env.err ELSE <<>>)

\* sh.worksheet(title): found, WorksheetNotFound, or another exception
LookupCall(title, found, env) ==
    ApiCall("worksheet", title,
            IF env.fail = "worksheet" THEN "raised"
            ELSE IF found = 0 THEN "WorksheetNotFound" ELSE "ok",
            IF env.fail = "worksheet" THEN env.err ELSE <<>>)

\* the row with job title and city in each other's place
JobPostRow_swapped(timestamp, job_title, city, platform, variant_label, target_audience, application_link, generated_post) ==
    <<isoformat(timestamp), city, job_title, platform, variant_label,
      target_audience, application_link, generated_post>>

\* the row of app.py:120-129
JobPostRow(timestamp, job_title, city, platform, variant_label, target_audience, application_link, generated_post) ==
    <<isoformat(timestamp), job_title, city, platform, variant_label,
      target_audience, application_link, generated_post>>

\* the row of app.py:157-162
ResearchRow(timestamp, question_type, input_text, insights) ==
    <<isoformat(timestamp), question_type, input_text, insights>>

\* append_jobpost_to_sheet: out is what it renders, calls the external calls
\* made in order, book the spreadsheet afterwards, cache the memo of
\* get_gsheet_client afterwards, raised whether an exception leaves it.
append_jobpost_to_sheet(timestamp, job_title, city, platform, variant_label, target_audience, application_link, generated_post, env) ==
    LET gc == get_gsheet_client(env)
        values == JobPostRow(timestamp, job_title, city, platform, variant_label,
                             target_audience, application_link, generated_post)
        found == worksheet(book, JOBPOSTS_SHEET)
        c_open == <<SheetCall("open", SPREADSHEET_NAME, env)>>
        c_ws == c_open \o <<LookupCall(JOBPOSTS_SHEET, found, env)>>
        c_add == IF found = 0
                 THEN c_ws \o <<SheetCall("add_worksheet", JOBPOSTS_SHEET, env)>>
                 ELSE c_ws
        b_ws == IF found = 0 THEN add_worksheet(book, JOBPOSTS_SHEET) ELSE book
        ws == IF found = 0 THEN Len(b_ws) ELSE found
        c_row == c_add \o <<SheetCall("append_row", values, env)>>
        except(c, b) ==
            [out |-> <<El("error", MSG_SHEETS_ERROR \o env.err)>>, calls |-> c,
             book |-> b, cache |-> gc, raised |-> FALSE]
    IN  IF gc = None
        THEN [out |-> <<El("warning", MSG_SHEETS_NOT_CONFIGURED)>>, calls |-> <<>>,
              book |-> book, cache |-> gc, raised |-> FALSE]
        ELSE IF env.fail = "open" THEN except(c_open, book)
        ELSE IF env.fail = "worksheet" THEN except(c_ws, book)
        ELSE IF found = 0 /\ env.fail = "add_worksheet" THEN except(c_add, book)
        ELSE IF env.fail = "append_row" THEN except(c_row, b_ws)
        ELSE [out |-> <<El("success", MSG_JOBPOST_SAVED)>>, calls |-> c_row,
              book |-> append_row(b_ws, ws, values), cache |-> gc, raised |-> FALSE]

\* append_research_to_sheet, as above for the ResearchInsights worksheet
append_research_to_sheet(timestamp, question_type, input_text, insights, env) ==
    LET gc == get_gsheet_client(env)
        values == ResearchRow(timestamp, question_type, input_text, insights)
        found == worksheet(book, RESEARCH_SHEET)
        c_open == <<SheetCall("open", SPREADSHEET_NAME, env)>>
        c_ws == c_open \o <<LookupCall(RESEARCH_SHEET, found, env)>>
        c_add == IF found = 0
                 THEN c_ws \o <<SheetCall("add_worksheet", RESEARCH_SHEET, env)>>
                 ELSE c_ws
        b_ws == IF found = 0 THEN add_worksheet(book, RESEARCH_SHEET) ELSE book
        ws == IF found = 0 THEN Len(b_ws) ELSE found
        c_row == c_add \o <<SheetCall("append_row", values, env)>>
        except(c, b) ==
            [out |-> <<El("error", MSG_SHEETS_ERROR \o env.err)>>, calls |-> c,
             book |-> b, cache |-> gc, raised |-> FALSE]
    IN  IF gc = None
        THEN [out |-> <<El("warning", MSG_SHEETS_NOT_CONFIGURED)>>, calls |-> <<>>,
              book |-> book, cache |-> gc, raised |-> FALSE]
        ELSE IF env.fail = "open" THEN except(c_open, book)
        ELSE IF env.fail = "worksheet" THEN except(c_ws, book)
        ELSE IF found = 0 /\ env.fail = "add_worksheet" THEN except(c_add, book)
        ELSE IF env.fail = "append_row" THEN except(c_row, b_ws)
        ELSE [out |-> <<El("success", MSG_RESEARCH_SAVED)>>, calls |-> c_row,
              book |-> append_row(b_ws, ws, values), cache |-> gc, raised |-> FALSE]

(***************************************************************************)
(* STREAMLIT UI, app.py:173-464                                            *)
(***************************************************************************)
\* the options of the sidebar radio, app.py:184-187
MODE_POSTS == "Posts & Summaries"
MODE_RESEARCH == "Research & Insights"

\* the button labels, app.py:246, 336, 352, 417, 458
B_GENERATE_POST == "Sgenerirovat ob'yavlenie na russkom"
B_SAVE_POST == "Sohranit ob'yavlenie v Google Sheets"
B_GENERATE_SUMMARY == "Sgenerirovat kratkoe rezyume dlya rabotodatelya (ENG/RU)"
B_GET_INSIGHTS == "Poluchit insayty"
B_SAVE_INSIGHTS == "Sohranit insayty v Google Sheets"
\* a run no button press caused (a widget edit, the first load)
NoButton == "no button"

\* the options of the selectboxes the user picks from (the first is the
\* default), app.py:209-227 and 398-405
Platforms == <<<<"Facebook">>, <<"Telegram">>>>
Tones == <<<<"Prostoy i ponyatnyy">>, <<"Druzhelyubnyy">>>>
Variants == <<<<"A">>, <<"B">>>>
ResearchTypes ==
    <<<<"Interpretaciya metrik / tablic">>, <<"Sravnenie regionov / platform">>,
      <<"Obschiy vopros po strategii / trafiku">>>>

Range(f) == {f[i] : i \in DOMAIN f}

\* what the user types into the text inputs
JobTitles == {<<>>, <<"a">>}
Cities == {<<>>, <<"a">>}
RawDescriptions == {<<>>, <<" ">>, <<"a">>}
Audiences == {<<>>, <<"a">>}
Links == {<<>>, <<" ">>, <<"a">>}

\* the widgets of the mode not on display hold their defaults: Streamlit
\* drops the state of a widget a run did not render
DefaultWidgets(mode) ==
    [mode |-> mode,
     job_title |-> <<>>, city |-> <<>>, platform |-> Platforms[1],
     tone |-> Tones[1], target_audience |-> <<>>, variant_label |-> Variants[1],
     application_link |-> <<>>, raw_description |-> <<>>,
     research_type |-> ResearchTypes[1], research_input |-> <<>>]

\* st.button(label): True only in the run its own press caused
Button(label, pressed) == pressed = label

\* a line of an f-string under textwrap.dedent that holds only the
\* interpolated value: a whitespace-only line is normalised to an empty one
DedentLine(s) == IF strip(s) = <<>> THEN <<>> ELSE s

\* the validation of app.py:247 and 353
MissingJobFields(w) ==
    ~Truthy(w.job_title) \/ ~Truthy(w.city) \/ ~Truthy(w.raw_description)

\* the validation of the research input without .strip()
MissingResearchInput_unstripped(w) == ~Truthy(w.research_input)

\* the validation of app.py:418
MissingResearchInput(w) == ~Truthy(strip(w.research_input))

\* the system prompts, app.py:251-260, 357-361, 422-438
SYS_JOBPOST == <<"system: pomoshchnik po sozdaniyu vakansiy">>
SYS_SUMMARY == <<"system: concise professional summaries">>
SYS_METRICS == <<"system: analitik po marketingu i rekrutingu">>
SYS_REGIONS == <<"system: ekspert po kanalam trafika i geografii">>
SYS_STRATEGY == <<"system: strateg po performans-marketingu">>

\* app.py:262-271
Cta(application_link) ==
    IF Truthy(strip(application_link))
    THEN <<"cta: zapolnite formu po ssylke: ">> \o application_link
    ELSE <<"cta: napishite nam v WhatsApp ili zapolnite anketu">>

\* app.py:273-329
JobPostPrompt(w) ==
    <<"Sostav russkoyazychnoe ob'yavlenie ... Dolzhnost: ">> \o w.job_title
        \o <<"Gorod / Region: ">> \o w.city
        \o <<"Celevaya auditoriya: ">> \o w.target_audience
        \o <<"Variant: ">> \o w.variant_label
        \o <<"Platforma: ">> \o w.platform
        \o <<"Predpochtitelnyy ton: ">> \o w.tone
        \o <<"Syroy tekst / zametki: ">> \o DedentLine(w.raw_description)
        \o <<"Trebovaniya k rezultatu ... ">> \o Cta(w.application_link)

\* app.py:363-379
SummaryPrompt(w) ==
    <<"Summarize this job ... Job title: ">> \o w.job_title
        \o <<"City / Region: ">> \o w.city
        \o <<"Raw details: ">> \o DedentLine(w.raw_description)

\* app.py:422-438
ResearchSystemPrompt(research_type) ==
    IF research_type = ResearchTypes[1] THEN SYS_METRICS
    ELSE IF research_type = ResearchTypes[2] THEN SYS_REGIONS
    ELSE SYS_STRATEGY

\* app.py:440-451
ResearchPrompt(w) ==
    <<"Vot moy vopros / dannye: ">> \o DedentLine(w.research_input)
        \o <<"Pozhaluysta: 1) ... 2) ... 3) ...">>

\* what a stretch of the script did: the elements rendered, the external
\* calls, the call_model and append_* invocations, the memos and the
\* spreadsheet afterwards
Did(rendered, calls, models, saves, hf, gs, b, raised) ==
    [page |-> rendered, calls |-> calls, models |-> models, saves |-> saves,
     hf |-> hf, gs |-> gs, book |-> b, raised |-> raised]

Nothing == Did(<<>>, <<>>, <<>>, <<>>, hf_cache, gs_cache, book, FALSE)

ModelCall(system_prompt, user_prompt, max_new_tokens, ret) ==
    [system |-> system_prompt, user |-> user_prompt,
     max_tokens |-> max_new_tokens, ret |-> ret]

\* the sidebar, app.py:192-195
Sidebar ==
    (IF ~Truthy(HF_TOKEN) THEN <<El("sidebar.error", MSG_SIDEBAR_NO_TOKEN)>> ELSE <<>>)
        \o (IF ~Truthy(GCP_SERVICE_ACCOUNT)
            THEN <<El("sidebar.warning", MSG_SIDEBAR_NO_GCP)>> ELSE <<>>)

\* the record of one append_* invocation: the function and its arguments
SaveCall(fn, args) == [fn |-> fn, args |-> args]

\* what the script did by one append_* invocation that returned r
Saved(r, call) ==
    Did(r.out, r.calls, <<>>, <<call>>, hf_cache, r.cache, r.book, r.raised)

\* app.py:336-349, reached with generated_post just rendered
SavePostBlock(w, pressed, generated_post, env) ==
    IF Button(B_SAVE_POST, pressed)
    THEN IF Truthy(generated_post)
         THEN Saved(append_jobpost_to_sheet(env.now, w.job_title, w.city,
                        w.platform, w.variant_label, w.target_audience,
                        w.application_link, generated_post, env.sheet),
                    SaveCall("append_jobpost_to_sheet",
                        <<env.now, w.job_title, w.city, w.platform,
                          w.variant_label, w.target_audience,
                          w.application_link, generated_post>>))
         ELSE Did(<<El("warning", MSG_GENERATE_FIRST)>>, <<>>, <<>>, <<>>,
                  hf_cache, gs_cache, book, FALSE)
    ELSE Nothing

\* what the script did by one call_model that returned m, rendering
\* `rendered`, followed by the stretch s
Generated(m, call, rendered, s) ==
    Did(rendered \o s.page, m.calls \o s.calls, <<call>>, s.saves,
        m.cache, s.gs, s.book, m.raised \/ s.raised)

\* app.py:331-349: generated_post is what call_model returned
PostResult(w, pressed, env, m) ==
    Generated(m, ModelCall(SYS_JOBPOST, JobPostPrompt(w), 350, m.ret),
              <<El("markdown", <<"Sgenerirovannoe ob'yavlenie (russkiy)">>),
                El("write", m.ret),
                El("button", <<B_SAVE_POST>>)>>,
              SavePostBlock(w, pressed, m.ret, env))

\* app.py:246-349
GeneratePostBlock(w, pressed, env) ==
    IF Button(B_GENERATE_POST, pressed)
    THEN IF MissingJobFields(w)
         THEN Did(<<El("error", MSG_FILL_FIELDS)>>, <<>>, <<>>, <<>>,
                  hf_cache, gs_cache, book, FALSE)
         ELSE PostResult(w, pressed, env,
                  call_model(SYS_JOBPOST, JobPostPrompt(w), 350, env.model))
    ELSE Nothing

\* app.py:381-384: summary_text is what call_model returned
SummaryResult(w, m) ==
    Generated(m, ModelCall(SYS_SUMMARY, SummaryPrompt(w), 250, m.ret),
              <<El("markdown", <<"Kratkoe rezyume dlya rabotodatelya">>),
                El("write", m.ret)>>,
              Nothing)

\* app.py:352-384
GenerateSummaryBlock(w, pressed, env) ==
    IF Button(B_GENERATE_SUMMARY, pressed)
    THEN IF MissingJobFields(w)
         THEN Did(<<El("error", MSG_FILL_FIELDS)>>, <<>>, <<>>, <<>>,
                  hf_cache, gs_cache, book, FALSE)
         ELSE SummaryResult(w,
                  call_model(SYS_SUMMARY, SummaryPrompt(w), 250, env.model))
    ELSE Nothing

\* app.py:458-464, reached with insights just rendered
SaveInsightsBlock(w, pressed, insights, env) ==
    IF Button(B_SAVE_INSIGHTS, pressed)
    THEN Saved(append_research_to_sheet(env.now, w.research_type,
                   w.research_input, insights, env.sheet),
               SaveCall("append_research_to_sheet",
                   <<env.now, w.research_type, w.research_input, insights>>))
    ELSE Nothing

\* app.py:453-464: insights is what call_model returned
InsightsResult(w, pressed, env, m) ==
    Generated(m, ModelCall(ResearchSystemPrompt(w.research_type),
                           ResearchPrompt(w), 500, m.ret),
              <<El("markdown", <<"Insayty i rekomendacii">>),
                El("write", m.ret),
                El("button", <<B_SAVE_INSIGHTS>>)>>,
              SaveInsightsBlock(w, pressed, m.ret, env))

\* app.py:417-464
GetInsightsBlock(w, pressed, env) ==
    IF Button(B_GET_INSIGHTS, pressed)
    THEN IF MissingResearchInput(w)
         THEN Did(<<El("error", MSG_ENTER_QUESTION)>>, <<>>, <<>>, <<>>,
                  hf_cache, gs_cache, book, FALSE)
         ELSE InsightsResult(w, pressed, env,
                  call_model(ResearchSystemPrompt(w.research_type),
                             ResearchPrompt(w), 500, env.model))
    ELSE Nothing

\* MODE 1, app.py:201-384: the two generation blocks p and q in order.  At
\* most one button is True in a run, so at most one of them does anything.
ModePosts(p, q) ==
    Did(Sidebar \o <<El("button", <<B_GENERATE_POST>>)>> \o p.page
            \o <<El("button", <<B_GENERATE_SUMMARY>>)>> \o q.page,
        p.calls \o q.calls, p.models \o q.models, p.saves \o q.saves,
        IF q.models # <<>> THEN q.hf ELSE p.hf,
        p.gs, p.book, p.raised \/ q.raised)

\* MODE 2, app.py:390-464
ModeResearch(r) ==
    Did(Sidebar \o <<El("button", <<B_GET_INSIGHTS>>)>> \o r.page,
        r.calls, r.models, r.saves, r.hf, r.gs, r.book, r.raised)

\* One run of the script, top to bottom
Script(w, pressed, env) ==
    IF w.mode = MODE_POSTS
    THEN ModePosts(GeneratePostBlock(w, pressed, env),
                   GenerateSummaryBlock(w, pressed, env))
    ELSE ModeResearch(GetInsightsBlock(w, pressed, env))

(***************************************************************************)
(* The environment                                                         *)
(***************************************************************************)
\* the values of the secrets: absent, empty, set
Tokens == {None, <<>>, <<"hf_token">>}
ServiceAccounts == {None, <<"service_account_info">>}

Sheet(title) == [title |-> title, rows |-> <<>>]

\* the spreadsheet before the application first writes to it
InitBooks ==
    {<<Sheet(<<"Sheet1">>)>>,
     <<Sheet(RESEARCH_SHEET), Sheet(<<"Sheet1">>), Sheet(JOBPOSTS_SHEET)>>}

RECURSIVE RowsIn(_)
RowsIn(b) == IF b = <<>> THEN 0 ELSE Len(Head(b).rows) + RowsIn(Tail(b))

\* the outcomes of the external services during one run of the script
Env(model, sheet, now) == [model |-> model, sheet |-> sheet, now |-> now]

\* a run that reaches no external service reads none of the outcomes
IdleEnv ==
    Env([ctor_ok |-> TRUE, chat |-> [ok |-> TRUE, content |-> <<>>, err |-> <<>>]],
        [auth_ok |-> TRUE, fail |-> "none", err |-> <<>>],
        CHOOSE t \in Timestamps : t.microsecond = "000000")

\* the text on display: the body of the st.write element, None without one
Written(p) ==
    IF \E i \in DOMAIN p : p[i].el = "write"
    THEN p[CHOOSE i \in DOMAIN p : p[i].el = "write"].body
    ELSE None

Shows(p, label) == \E i \in DOMAIN p : p[i] = El("button", <<label>>)

RunRecord(pressed, d, before) ==
    [pressed |-> pressed, calls |-> d.calls, models |-> d.models,
     saves |-> d.saves, raised |-> d.raised, before |-> before]

(***************************************************************************)
(* Spec: the application.  Every user event reruns the script.             *)
(***************************************************************************)
\* the state after a run of the script that did d
Finish(w, pressed, d) ==
    /\ widgets' = w
    /\ page' = d.page
    /\ run' = RunRecord(pressed, d,
                  IF pressed \in {B_SAVE_POST, B_SAVE_INSIGHTS}
                  THEN Written(page) ELSE None)
    /\ hf_cache' = d.hf
    /\ gs_cache' = d.gs
    /\ book' = d.book
    /\ UNCHANGED <<HF_TOKEN, GCP_SERVICE_ACCOUNT>>

\* One rerun of the script with widget values w, caused by `pressed`
Rerun(w, pressed, env) == Finish(w, pressed, Script(w, pressed, env))

Init ==
    /\ HF_TOKEN \in Tokens
    /\ GCP_SERVICE_ACCOUNT \in ServiceAccounts
    /\ hf_cache = UNSET
    /\ gs_cache = UNSET
    /\ book \in InitBooks
    /\ widgets = DefaultWidgets(MODE_POSTS)
    /\ page = Sidebar \o <<El("button", <<B_GENERATE_POST>>),
                           El("button", <<B_GENERATE_SUMMARY>>)>>
    /\ run = RunRecord(NoButton, Nothing, None)

\* the fields of the job form the script only passes on
Optional == {"platform", "tone", "target_audience", "variant_label", "application_link"}

Changed(w) == Cardinality({f \in Optional : w[f] # DefaultWidgets(w.mode)[f]})

\* the user edits a widget: a rerun no button caused
Edit(field, values) ==
    \E v \in values :
        /\ v # widgets[field]
        /\ Changed([widgets EXCEPT ![field] = v]) <= MaxOptional
        /\ Rerun([widgets EXCEPT ![field] = v], NoButton, IdleEnv)

SelectMode ==
    \E m \in {MODE_POSTS, MODE_RESEARCH} :
        /\ m # widgets.mode
        /\ Rerun(DefaultWidgets(m), NoButton, IdleEnv)

EditJobTitle == widgets.mode = MODE_POSTS /\ Edit("job_title", JobTitles)
EditCity == widgets.mode = MODE_POSTS /\ Edit("city", Cities)
EditPlatform == widgets.mode = MODE_POSTS /\ Edit("platform", Range(Platforms))
EditTone == widgets.mode = MODE_POSTS /\ Edit("tone", Range(Tones))
EditTargetAudience == widgets.mode = MODE_POSTS /\ Edit("target_audience", Audiences)
EditVariantLabel == widgets.mode = MODE_POSTS /\ Edit("variant_label", Range(Variants))
EditApplicationLink == widgets.mode = MODE_POSTS /\ Edit("application_link", Links)
EditRawDescription == widgets.mode = MODE_POSTS /\ Edit("raw_description", RawDescriptions)
EditResearchType == widgets.mode = MODE_RESEARCH /\ Edit("research_type", Range(ResearchTypes))
EditResearchInput == widgets.mode = MODE_RESEARCH /\ Edit("research_input", Strings(MaxLen))

\* the user presses a generation button that is on the page; the run may
\* reach the inference service
PressGenerate(label) ==
    /\ Shows(page, label)
    /\ \E m \in ModelEnvs :
            Rerun(widgets, label, Env(m, IdleEnv.sheet, IdleEnv.now))

\* the user presses a save button that is on the page; the run may reach the
\* spreadsheet service
PressSave(label) ==
    /\ Shows(page, label)
    /\ \E s \in SheetEnvs, t \in Timestamps :
            Rerun(widgets, label, Env(IdleEnv.model, s, t))

PressGeneratePost == PressGenerate(B_GENERATE_POST)
PressGenerateSummary == PressGenerate(B_GENERATE_SUMMARY)
PressGetInsights == PressGenerate(B_GET_INSIGHTS)
PressSavePost == PressSave(B_SAVE_POST)
PressSaveInsights == PressSave(B_SAVE_INSIGHTS)

Next ==
    \/ SelectMode
    \/ EditJobTitle
    \/ EditCity
    \/ EditPlatform
    \/ EditTone
    \/ EditTargetAudience
    \/ EditVariantLabel
    \/ EditApplicationLink
    \/ EditRawDescription
    \/ EditResearchType
    \/ EditResearchInput
    \/ PressGeneratePost
    \/ PressGenerateSummary
    \/ PressGetInsights
    \/ PressSavePost
    \/ PressSaveInsights

Spec == Init /\ [][Next]_vars

(***************************************************************************)
(* SpecFn: the helper functions, applied to arbitrary arguments.           *)
(***************************************************************************)
\* arguments of append_jobpost_to_sheet: one tuple of pairwise different
\* values, one with empty and repeated values
JobPostArgs ==
    {<<[date |-> "2025-01-02", time |-> "03:04:05", microsecond |-> "000000"],
       <<"j">>, <<"c">>, Platforms[1], Variants[1], <<"t">>, <<"l">>, <<"p">>>>,
     <<[date |-> "2025-01-02", time |-> "03:04:06", microsecond |-> "000007"],
       <<"a">>, <<"a">>, Platforms[2], Variants[2], <<>>, <<>>, <<"a">>>>}

\* arguments of append_research_to_sheet
ResearchArgs ==
    {<<[date |-> "2025-01-02", time |-> "03:04:05", microsecond |-> "000000"],
       ResearchTypes[1], <<"i">>, <<"n">>>>,
     <<[date |-> "2025-01-02", time |-> "03:04:06", microsecond |-> "000007"],
       ResearchTypes[3], <<" ">>, <<>>>>}

InitFn ==
    /\ HF_TOKEN \in Tokens
    /\ GCP_SERVICE_ACCOUNT \in ServiceAccounts
    /\ hf_cache = UNSET
    /\ gs_cache = UNSET
    /\ book \in InitBooks
    /\ widgets = DefaultWidgets(MODE_POSTS)
    /\ page = <<>>
    /\ run = RunRecord(NoButton, Nothing, None)

\* the state after call_model returned m
ModelReturned(call, m) ==
    /\ run' = [pressed |-> NoButton, calls |-> m.calls, models |-> <<call>>,
               saves |-> <<>>, raised |-> m.raised, before |-> None]
    /\ page' = <<>>
    /\ hf_cache' = m.cache
    /\ UNCHANGED <<HF_TOKEN, GCP_SERVICE_ACCOUNT, gs_cache, widgets, book>>

FnCallModel ==
    \E sys \in {SYS_JOBPOST, SYS_SUMMARY}, max \in {350, 250}, env \in ModelEnvs :
        \E m \in {call_model(sys, <<"prompt">>, max, env)} :
            ModelReturned(ModelCall(sys, <<"prompt">>, max, m.ret), m)

\* the state after an append_* function returned r
AppendReturned(call, r) ==
    /\ run' = [pressed |-> NoButton, calls |-> r.calls, models |-> <<>>,
               saves |-> <<call>>, raised |-> r.raised, before |-> None]
    /\ page' = r.out
    /\ gs_cache' = r.cache
    /\ book' = r.book
    /\ UNCHANGED <<HF_TOKEN, GCP_SERVICE_ACCOUNT, hf_cache, widgets>>

FnAppendJobpost ==
    /\ RowsIn(book) < MaxRows
    /\ \E a \in JobPostArgs, env \in SheetEnvs :
        AppendReturned(SaveCall("append_jobpost_to_sheet", a),
            append_jobpost_to_sheet(a[1], a[2], a[3], a[4], a[5], a[6], a[7],
                                    a[8], env))

FnAppendResearch ==
    /\ RowsIn(book) < MaxRows
    /\ \E a \in ResearchArgs, env \in SheetEnvs :
        AppendReturned(SaveCall("append_research_to_sheet", a),
            append_research_to_sheet(a[1], a[2], a[3], a[4], env))

NextFn ==
    \/ FnCallModel
    \/ FnAppendJobpost
    \/ FnAppendResearch

SpecFn == InitFn /\ [][NextFn]_vars

(***************************************************************************)
(* Properties                                                              *)
(***************************************************************************)
GenerateButtons == {B_GENERATE_POST, B_GENERATE_SUMMARY, B_GET_INSIGHTS}
SaveButtons == {B_SAVE_POST, B_SAVE_INSIGHTS}

\* the calls of the last run to one API
CallsTo(api) == {i \in DOMAIN run.calls : run.calls[i].api = api}

\* the worksheets of b with the title, and the rows of the first of them
SheetsNamed(b, title) == {i \in DOMAIN b : b[i].title = title}

RowsOf(b, title) ==
    IF SheetsNamed(b, title) = {} THEN <<>>
    ELSE b[CHOOSE i \in SheetsNamed(b, title) :
               \A j \in SheetsNamed(b, title) : i <= j].rows

IsPrefix(s, t) == Len(s) <= Len(t) /\ SubSeq(t, 1, Len(s)) = s

\* the worksheet an append_* invocation writes to, and the row it is to write
TargetOf(call) ==
    IF call.fn = "append_jobpost_to_sheet" THEN JOBPOSTS_SHEET ELSE RESEARCH_SHEET

RowFor(call) ==
    IF call.fn = "append_jobpost_to_sheet"
    THEN <<isoformat(call.args[1]), call.args[2], call.args[3], call.args[4],
           call.args[5], call.args[6], call.args[7], call.args[8]>>
    ELSE <<isoformat(call.args[1]), call.args[2], call.args[3], call.args[4]>>

SavedMessages == {<<El("success", MSG_JOBPOST_SAVED)>>, <<El("success", MSG_RESEARCH_SAVED)>>}

----------------------------------------------------------------------------
\* C1: in the run caused by pressing a save button that the previous run
\* rendered under a generated text, append_jobpost_to_sheet (resp.
\* append_research_to_sheet) is invoked once, with the text that was on
\* display.
C1_SavePressInvokesAppend ==
    /\ run.pressed = B_SAVE_POST =>
            /\ Len(run.saves) = 1
            /\ run.saves[1].fn = "append_jobpost_to_sheet"
            /\ run.saves[1].args[8] = run.before
    /\ run.pressed = B_SAVE_INSIGHTS =>
            /\ Len(run.saves) = 1
            /\ run.saves[1].fn = "append_research_to_sheet"
            /\ run.saves[1].args[4] = run.before

----------------------------------------------------------------------------
\* C2: with HF_TOKEN empty or absent, every call_model of a run returns the
\* fixed "not configured" message, and the run calls no external service.
C2_NoTokenNotConfigured ==
    ~Truthy(HF_TOKEN) =>
        /\ \A i \in DOMAIN run.models : run.models[i].ret = MSG_MODEL_NOT_CONFIGURED
        /\ CallsTo("chat_completion") = {}
        /\ hf_cache \in {UNSET, None}

C2_Witness ==
    /\ ~Truthy(HF_TOKEN)
    /\ run.pressed = B_GET_INSIGHTS
    /\ Len(run.models) = 1
    /\ Written(page) = MSG_MODEL_NOT_CONFIGURED

----------------------------------------------------------------------------
\* C3: with gcp_service_account absent, an append_* invocation renders the
\* fixed "Google Sheets not configured" warning and calls no spreadsheet API,
\* and the spreadsheet stays as it was at the start.
C3_NoCredentialNoWrite ==
    ~Truthy(GCP_SERVICE_ACCOUNT) =>
        /\ book \in InitBooks
        /\ run.saves # <<>> =>
                /\ page = <<El("warning", MSG_SHEETS_NOT_CONFIGURED)>>
                /\ run.calls = <<>>

C3_Witness ==
    /\ ~Truthy(GCP_SERVICE_ACCOUNT)
    /\ Len(run.saves) = 1
    /\ run.saves[1].fn = "append_research_to_sheet"
    /\ page = <<El("warning", MSG_SHEETS_NOT_CONFIGURED)>>

----------------------------------------------------------------------------
\* C4: a step in which an append_* invocation reports success adds exactly
\* one row to the spreadsheet: the row of the arguments in the documented
\* order, after the rows the target worksheet had, with every worksheet that
\* existed keeping its title and its rows.
C4_SuccessfulSaveAppendsRow ==
    [][(run'.saves # <<>> /\ page' \in SavedMessages) =>
            /\ RowsIn(book') = RowsIn(book) + 1
            /\ RowsOf(book', TargetOf(run'.saves[1]))
                    = Append(RowsOf(book, TargetOf(run'.saves[1])),
                             RowFor(run'.saves[1]))
            /\ \A i \in DOMAIN book :
                    /\ i \in DOMAIN book'
                    /\ book'[i].title = book[i].title
                    /\ IsPrefix(book[i].rows, book'[i].rows)]_vars

C4_Witness ==
    /\ page = <<El("success", MSG_JOBPOST_SAVED)>>
    /\ Len(RowsOf(book, JOBPOSTS_SHEET)) = 2
    /\ RowsOf(book, JOBPOSTS_SHEET)[1] # RowsOf(book, JOBPOSTS_SHEET)[2]

----------------------------------------------------------------------------
\* C5: when chat_completion returns without raising, call_model returns the
\* returned content itself and st.write renders that same string.
C5_RenderedVerbatim ==
    \A i \in CallsTo("chat_completion") :
        run.calls[i].outcome = "ok" =>
            /\ Len(run.models) = 1
            /\ run.models[1].ret = run.calls[i].text
            /\ Written(page) = run.calls[i].text

C5_Witness ==
    /\ run.pressed \in GenerateButtons
    /\ Len(run.calls) = 1
    /\ run.calls[1].outcome = "ok"
    /\ run.calls[1].text = <<" ">>
    /\ Written(page) = <<" ">>

----------------------------------------------------------------------------
\* C6: no exception leaves call_model or an append_* function; a call that
\* raises is the last call made (no retry, no further spreadsheet call); a
\* raising chat_completion makes call_model return the error prefix followed
\* by str(e), a raising spreadsheet call makes the save render st.error with
\* the prefix followed by str(e).
C6_FailuresCaught ==
    /\ ~run.raised
    /\ \A i \in DOMAIN run.calls :
            run.calls[i].outcome = "raised" =>
                /\ i = Len(run.calls)
                /\ IF run.calls[i].api = "chat_completion"
                   THEN /\ Len(run.models) = 1
                        /\ IsPrefix(MSG_MODEL_ERROR, run.models[1].ret)
                        /\ run.models[1].ret = MSG_MODEL_ERROR \o run.calls[i].text
                   ELSE page = <<El("error", MSG_SHEETS_ERROR \o run.calls[i].text)>>

C6_Witness ==
    /\ Len(run.calls) = 4
    /\ run.calls[3].api = "add_worksheet"
    /\ run.calls[4].api = "append_row"
    /\ run.calls[4].outcome = "raised"
    /\ ~run.raised

----------------------------------------------------------------------------
\* C7: a run of the script, whatever button caused it, makes at most one call
\* to an external service.
C7_AtMostOneCallPerRun == Len(run.calls) <= 1

C7_Witness ==
    /\ run.pressed = B_GENERATE_SUMMARY
    /\ Len(run.calls) = 1
    /\ run.calls[1].outcome = "raised"

----------------------------------------------------------------------------
\* C8: every step keeps every worksheet, its title, and its rows as a prefix
\* of its rows afterwards; a call_model step leaves the spreadsheet as it is;
\* a job-post save leaves the rows of ResearchInsights as they are, a research
\* save those of JobPosts.
C8_AppendOnly ==
    [][/\ \A i \in DOMAIN book :
                /\ i \in DOMAIN book'
                /\ book'[i].title = book[i].title
                /\ IsPrefix(book[i].rows, book'[i].rows)
       /\ run'.models # <<>> => book' = book
       /\ \A k \in DOMAIN run'.saves :
                /\ run'.saves[k].fn = "append_jobpost_to_sheet" =>
                        RowsOf(book', RESEARCH_SHEET) = RowsOf(book, RESEARCH_SHEET)
                /\ run'.saves[k].fn = "append_research_to_sheet" =>
                        RowsOf(book', JOBPOSTS_SHEET) = RowsOf(book, JOBPOSTS_SHEET)]_vars

C8_Witness ==
    /\ Len(RowsOf(book, RESEARCH_SHEET)) = 1
    /\ Len(RowsOf(book, JOBPOSTS_SHEET)) = 1
    /\ page \in SavedMessages

----------------------------------------------------------------------------
\* C9 as stated: in a step in which an append_* invocation has a client and
\* the spreadsheet opens, a missing worksheet is created by exactly one
\* add_worksheet and holds the row afterwards, an existing worksheet gets the
\* row and none is created; no title ever names two worksheets.
SaveOpened(r) ==
    /\ r.saves # <<>>
    /\ r.calls # <<>>
    /\ r.calls[1].api = "open"
    /\ r.calls[1].outcome = "ok"

CreatedOrAppended(b0, b1, r) ==
    IF SheetsNamed(b0, TargetOf(r.saves[1])) = {}
    THEN /\ Cardinality({i \in DOMAIN r.calls : r.calls[i].api = "add_worksheet"}) = 1
         /\ Cardinality(SheetsNamed(b1, TargetOf(r.saves[1]))) = 1
         /\ RowsOf(b1, TargetOf(r.saves[1])) = <<RowFor(r.saves[1])>>
    ELSE /\ {i \in DOMAIN r.calls : r.calls[i].api = "add_worksheet"} = {}
         /\ Len(b1) = Len(b0)
         /\ RowsOf(b1, TargetOf(r.saves[1]))
                = Append(RowsOf(b0, TargetOf(r.saves[1])), RowFor(r.saves[1]))

OneSheetPerTitle(b) ==
    \A i, j \in DOMAIN b : b[i].title = b[j].title => i = j

----------------------------------------------------------------------------
\* C10: a run caused by a job-post generation button with job title, city or
\* raw description empty renders the "fill the fields" error, calls
\* call_model not at all, writes no result and shows no save button; a run
\* caused by the insights button with an empty or whitespace-only input
\* renders its error and calls call_model not at all; call_model is called
\* only in a run a generation button caused with its fields filled.
JobFieldsEmpty ==
    widgets.job_title = <<>> \/ widgets.city = <<>> \/ widgets.raw_description = <<>>

ResearchInputBlank == \A i \in DOMAIN widgets.research_input : widgets.research_input[i] = " "

HasError(msg) == \E i \in DOMAIN page : page[i] = El("error", msg)

C10_ValidationGatesModel ==
    /\ (run.pressed \in {B_GENERATE_POST, B_GENERATE_SUMMARY} /\ JobFieldsEmpty) =>
            /\ HasError(MSG_FILL_FIELDS)
            /\ run.models = <<>>
            /\ Written(page) = None
            /\ ~Shows(page, B_SAVE_POST)
    /\ (run.pressed = B_GET_INSIGHTS /\ ResearchInputBlank) =>
            /\ HasError(MSG_ENTER_QUESTION)
            /\ run.models = <<>>
            /\ Written(page) = None
            /\ ~Shows(page, B_SAVE_INSIGHTS)
    /\ run.models # <<>> =>
            /\ run.pressed \in GenerateButtons
            /\ run.pressed = B_GET_INSIGHTS => ~ResearchInputBlank
            /\ run.pressed # B_GET_INSIGHTS => ~JobFieldsEmpty

C10_Witness ==
    /\ run.pressed = B_GET_INSIGHTS
    /\ widgets.research_input = <<" ">>
    /\ HasError(MSG_ENTER_QUESTION)
    /\ run.models = <<>>

====
